---- MODULE Spec2Model ----
(***************************************************************************)
(* A model of aiobspwm (src/aiobspwm.py): the WM mirror of a bspwm         *)
(* daemon's monitor/desktop tree, its bootstrap from a `wm -d` dump and    *)
(* the dispatch of subscription event lines.                               *)
(*                                                                         *)
(* Text is modelled as sequences of one-character strings, so that         *)
(* str.split, str.rstrip and int(x, base=16) are computed, not assumed.    *)
(* Python objects (Monitor, Desktop) live in a heap keyed by an address,   *)
(* so that two objects with equal fields are still two objects.            *)
(***************************************************************************)
EXTENDS Integers, Sequences, FiniteSets, TLC

VARIABLES
    monitors,         \* WM.monitors: monitor id -> address of a Monitor
    focused_monitor,  \* WM.focused_monitor: address of a Monitor, or None
    heap,             \* address -> the Monitor or Desktop object stored there
    gen,              \* number of _apply_initial_state calls so far
    hooked,           \* the calls of WM._evt_hook in order: the line passed,
                      \* and the mirror as the hook could see it
    booted,           \* some start() has returned normally
    nstarts,          \* start() calls made by the caller
    nevents,          \* lines handed to _on_wm_event
    last,             \* the operation performed last and how it ended
    pc,               \* where the caller of start() and run() stands
    daemon,           \* the daemon's own focus and layout state
    stream,           \* what the daemon wrote to the subscription, unread
    pending,          \* the lines of the chunk read last, not yet handled
    ndaemon,          \* steps the daemon has taken
    conns,            \* the connections opened by call() and run(), in order:
                      \* who opened it, whether it is open, what the peer got
    req,              \* the call() in progress or made last
    wire,             \* the bytes the daemon wrote to the subscription, unread
    eof,              \* the daemon has closed the subscription
    chunks,           \* the chunks run() has read, decoded, in order
    dispatched        \* the lines run() handed to _on_wm_event, in order

runvars == <<pc, daemon, stream, pending, ndaemon>>

wirevars == <<conns, req, wire, eof, chunks, dispatched>>

vars == <<monitors, focused_monitor, heap, gen, hooked, booted, nstarts,
          nevents, last, pc, daemon, stream, pending, ndaemon,
          conns, req, wire, eof, chunks, dispatched>>

-----------------------------------------------------------------------------
(* Bounds of the model. *)

MaxStarts == 2
MaxEvents == 2
MaxDaemonSteps == 3
MaxCalls == 2
MaxWrites == 2
MaxReads == 2
ChunkStep == 12

-----------------------------------------------------------------------------
(* Text. *)

SP == " "
NL == "\n"

DigitChars == <<"0", "1", "2", "3", "4", "5", "6", "7", "8", "9">>
LowerHex == <<"a", "b", "c", "d", "e", "f">>
UpperHex == <<"A", "B", "C", "D", "E", "F">>

IndexOf(ch, s) ==
    IF \E i \in 1..Len(s) : s[i] = ch
    THEN CHOOSE i \in 1..Len(s) : s[i] = ch
    ELSE 0

\* The value of one base-16 digit, -1 for any other character.
HexDigit(ch) ==
    IF IndexOf(ch, DigitChars) > 0 THEN IndexOf(ch, DigitChars) - 1
    ELSE IF IndexOf(ch, LowerHex) > 0 THEN IndexOf(ch, LowerHex) + 9
    ELSE IF IndexOf(ch, UpperHex) > 0 THEN IndexOf(ch, UpperHex) + 9
    ELSE -1

RECURSIVE HexValue(_, _)
HexValue(s, acc) ==
    IF s = <<>> THEN acc
    ELSE HexValue(Tail(s), acc * 16 + HexDigit(Head(s)))

HasHexPrefix(s) ==
    /\ Len(s) >= 2
    /\ s[1] = "0"
    /\ s[2] \in {"x", "X"}

\* h_int = functools.partial(int, base=16): an optional 0x/0X prefix, then
\* one or more base-16 digits; anything else raises ValueError.  (Signs,
\* surrounding whitespace and digit-group underscores, which int() accepts
\* as well, occur in no token of this model.)
h_int(tok) ==
    LET digits == IF HasHexPrefix(tok) THEN SubSeq(tok, 3, Len(tok)) ELSE tok
    IN  IF digits # <<>> /\ \A i \in 1..Len(digits) : HexDigit(digits[i]) >= 0
        THEN [exc |-> "", val |-> HexValue(digits, 0)]
        ELSE [exc |-> "ValueError", val |-> 0]

\* str.split(sep) with an explicit one-character separator: the pieces
\* between separators, empty pieces kept, never fewer than one piece.
Split(s, sep) ==
    LET seps == {i \in 1..Len(s) : s[i] = sep}
        n == Cardinality(seps) + 1
        \* the position of the k-th separator; 0 and Len(s) + 1 stand for
        \* the two ends of s
        At(k) == IF k = 0 THEN 0
                 ELSE IF k = n THEN Len(s) + 1
                 ELSE CHOOSE i \in seps : Cardinality({j \in seps : j <= i}) = k
    IN  [k \in 1..n |-> SubSeq(s, At(k - 1) + 1, At(k) - 1)]

\* str.rstrip(ch): every trailing ch removed.
RStrip(s, ch) ==
    LET kept == {i \in 1..Len(s) : s[i] # ch}
    IN  IF kept = {} THEN <<>>
        ELSE SubSeq(s, 1, CHOOSE i \in kept : \A j \in kept : j <= i)

\* sep.join(parts)
RECURSIVE Join(_, _)
Join(parts, sep) ==
    IF parts = <<>> THEN <<>>
    ELSE IF Len(parts) = 1 THEN parts[1]
    ELSE parts[1] \o <<sep>> \o Join(Tail(parts), sep)

\* The daemon's wire format of an id: 0x and upper-case base-16 digits,
\* zero-padded (the test's line 'desktop_focus 0x00600001 0x00600003').
HexWidth == 2

RECURSIVE HexDigits(_, _)
HexDigits(n, width) ==
    IF width = 0 THEN <<>>
    ELSE Append(HexDigits(n \div 16, width - 1),
                (DigitChars \o UpperHex)[(n % 16) + 1])

ToHex(n) == <<"0", "x">> \o HexDigits(n, HexWidth)

DESKTOP_FOCUS == <<"d","e","s","k","t","o","p","_","f","o","c","u","s">>
DESKTOP_LAYOUT == <<"d","e","s","k","t","o","p","_","l","a","y","o","u","t">>
MONITOR_GEOMETRY ==
    <<"m","o","n","i","t","o","r","_","g","e","o","m","e","t","r","y">>
NODE_FOCUS == <<"n","o","d","e","_","f","o","c","u","s">>
TILED == <<"t","i","l","e","d">>
MONOCLE == <<"m","o","n","o","c","l","e">>

-----------------------------------------------------------------------------
(* The WM mirror: Desktop, Monitor, WM. *)

None == 0

NoExc == ""

\* Addresses of the objects built by the g-th _apply_initial_state: the
\* Monitor built for the i-th monitor of the dump, and the Desktop built for
\* its j-th desktop.  No two objects share an address.
MonitorAddr(g, i) == g * 100 + i * 10
DesktopAddr(g, i, j) == g * 100 + i * 10 + j

EmptyMap == [x \in {} |-> 0]

Put(f, k, v) == [x \in DOMAIN f \cup {k} |-> IF x = k THEN v ELSE f[x]]

Values(f) == {f[x] : x \in DOMAIN f}

\* Desktop.__init__
NewDesktop(desk) == [id |-> desk.id, name |-> desk.name, layout |-> desk.layout]

\* The loop of Monitor.__init__: one Desktop per entry of the dump's list,
\* stored under its id (a later entry with the same id replaces an earlier).
RECURSIVE BuildDesktops(_, _, _, _, _)
BuildDesktops(desktops, j, g, i, acc) ==
    IF j > Len(desktops) THEN acc
    ELSE BuildDesktops(desktops, j + 1, g, i,
            [desktops |-> Put(acc.desktops, desktops[j].id, DesktopAddr(g, i, j)),
             heap |-> Put(acc.heap, DesktopAddr(g, i, j), NewDesktop(desktops[j]))])

\* Monitor.__init__ with focused_desktop set to the first desktop listed.
NewMonitor_FirstDesktop(mon, g, i) ==
    LET built == BuildDesktops(mon.desktops, 1, g, i,
                               [desktops |-> EmptyMap, heap |-> EmptyMap])
    IN  IF mon.focusedDesktopId \in DOMAIN built.desktops
        THEN [exc |-> NoExc,
              obj |-> [id |-> mon.id, name |-> mon.name,
                       desktops |-> built.desktops,
                       focused_desktop |-> built.desktops[mon.desktops[1].id]],
              heap |-> built.heap]
        ELSE [exc |-> "KeyError", obj |-> [id |-> mon.id], heap |-> EmptyMap]

\* Monitor.__init__: the object, the Desktops it built, or KeyError when
\* focusedDesktopId is not the id of one of the desktops listed.
NewMonitor(mon, g, i) ==
    LET built == BuildDesktops(mon.desktops, 1, g, i,
                               [desktops |-> EmptyMap, heap |-> EmptyMap])
    IN  IF mon.focusedDesktopId \in DOMAIN built.desktops
        THEN [exc |-> NoExc,
              obj |-> [id |-> mon.id, name |-> mon.name,
                       desktops |-> built.desktops,
                       focused_desktop |-> built.desktops[mon.focusedDesktopId]],
              heap |-> built.heap]
        ELSE [exc |-> "KeyError", obj |-> [id |-> mon.id], heap |-> EmptyMap]

\* The addresses reachable from WM.monitors and WM.focused_monitor; every
\* other object has no reference left and is freed.
Reachable(w) ==
    LET mons == Values(w.monitors) \cup
                (IF w.focused_monitor = None THEN {} ELSE {w.focused_monitor})
    IN  mons \cup UNION {Values(w.heap[a].desktops) \cup {w.heap[a].focused_desktop}
                        : a \in mons}

Collect(w) ==
    [w EXCEPT !.heap = [a \in DOMAIN w.heap \cap Reachable(w) |-> w.heap[a]]]

\* The loop of WM._apply_initial_state: each monitor of the dump in turn is
\* built and stored in WM.monitors under its id; the first Monitor that
\* cannot be built ends the loop with its exception.
RECURSIVE ApplyMonitors(_, _, _, _)
ApplyMonitors(w, mons, i, g) ==
    IF i > Len(mons) THEN [w |-> w, exc |-> NoExc]
    ELSE LET r == NewMonitor(mons[i], g, i)
         IN  IF r.exc # NoExc THEN [w |-> w, exc |-> r.exc]
             ELSE ApplyMonitors(
                    [w EXCEPT !.monitors = Put(w.monitors, mons[i].id, MonitorAddr(g, i)),
                              !.heap = [a \in DOMAIN w.heap \cup DOMAIN r.heap
                                           \cup {MonitorAddr(g, i)} |->
                                        IF a = MonitorAddr(g, i) THEN r.obj
                                        ELSE IF a \in DOMAIN r.heap THEN r.heap[a]
                                        ELSE w.heap[a]]],
                    mons, i + 1, g)

\* WM._apply_initial_state
apply_initial_state(w, state, g) ==
    LET r == ApplyMonitors(w, state.monitors, 1, g)
    IN  IF r.exc # NoExc THEN [w |-> Collect(r.w), exc |-> r.exc]
        ELSE IF state.focusedMonitorId \notin DOMAIN r.w.monitors
        THEN [w |-> Collect(r.w), exc |-> "KeyError"]
        ELSE [w |-> Collect([r.w EXCEPT !.focused_monitor =
                                    r.w.monitors[state.focusedMonitorId]]),
              exc |-> NoExc]

\* WM.start: call() and json.loads give the dump, or raise and leave the
\* mirror alone; the dump is then applied.
start(w, reply, g) ==
    IF reply.exc # NoExc THEN [w |-> w, exc |-> reply.exc]
    ELSE apply_initial_state(w, reply.state, g)

\* WM._on_desktop_focus that focuses the monitor as well.
on_desktop_focus_AndMonitor(w, mon_id, desk_id) ==
    IF mon_id \notin DOMAIN w.monitors THEN [w |-> w, exc |-> "KeyError"]
    ELSE LET m == w.monitors[mon_id]
         IN  IF desk_id \notin DOMAIN w.heap[m].desktops
             THEN [w |-> w, exc |-> "KeyError"]
             ELSE [w |-> Collect([w EXCEPT !.heap[m].focused_desktop =
                                              w.heap[m].desktops[desk_id],
                                          !.focused_monitor = m]),
                   exc |-> NoExc]

\* WM._on_desktop_focus that finds the desktop in whichever monitor has it.
on_desktop_focus_AnyMonitor(w, mon_id, desk_id) ==
    IF mon_id \notin DOMAIN w.monitors THEN [w |-> w, exc |-> "KeyError"]
    ELSE LET m == w.monitors[mon_id]
             owners == {a \in Values(w.monitors) :
                           desk_id \in DOMAIN w.heap[a].desktops}
         IN  IF owners = {} THEN [w |-> w, exc |-> "KeyError"]
             ELSE [w |-> [w EXCEPT !.heap[m].focused_desktop =
                             w.heap[CHOOSE a \in owners : TRUE].desktops[desk_id]],
                   exc |-> NoExc]

\* WM._on_desktop_focus
on_desktop_focus(w, mon_id, desk_id) ==
    IF mon_id \notin DOMAIN w.monitors THEN [w |-> w, exc |-> "KeyError"]
    ELSE LET m == w.monitors[mon_id]
         IN  IF desk_id \notin DOMAIN w.heap[m].desktops
             THEN [w |-> w, exc |-> "KeyError"]
             ELSE [w |-> [w EXCEPT !.heap[m].focused_desktop =
                                      w.heap[m].desktops[desk_id]],
                   exc |-> NoExc]

\* WM._on_desktop_layout that sets the layout of the focused desktop.
on_desktop_layout_OfFocused(w, mon_id, desk_id, new_layout) ==
    IF mon_id \notin DOMAIN w.monitors THEN [w |-> w, exc |-> "KeyError"]
    ELSE LET m == w.monitors[mon_id]
         IN  IF desk_id \notin DOMAIN w.heap[m].desktops
             THEN [w |-> w, exc |-> "KeyError"]
             ELSE [w |-> [w EXCEPT !.heap[w.heap[m].focused_desktop].layout =
                                      new_layout],
                   exc |-> NoExc]

\* WM._on_desktop_layout
on_desktop_layout(w, mon_id, desk_id, new_layout) ==
    IF mon_id \notin DOMAIN w.monitors THEN [w |-> w, exc |-> "KeyError"]
    ELSE LET m == w.monitors[mon_id]
         IN  IF desk_id \notin DOMAIN w.heap[m].desktops
             THEN [w |-> w, exc |-> "KeyError"]
             ELSE [w |-> [w EXCEPT !.heap[w.heap[m].desktops[desk_id]].layout =
                                      new_layout],
                   exc |-> NoExc]

\* WM._on_monitor_geometry
on_monitor_geometry(w, reply, g) == start(w, reply, g)

\* The EVENTS table of WM._on_wm_event: the converters of an event type;
\* an unknown type gets the empty tuple and unsupported_evt_handler.
ArgTypes(evt_type) ==
    IF evt_type = DESKTOP_FOCUS THEN <<"h_int", "h_int">>
    ELSE IF evt_type = DESKTOP_LAYOUT THEN <<"h_int", "h_int", "str">>
    ELSE <<>>

\* The number of positional parameters of the handler of an event type.
Arity(evt_type) ==
    IF evt_type = DESKTOP_FOCUS THEN 2
    ELSE IF evt_type = DESKTOP_LAYOUT THEN 3
    ELSE 0

Min(a, b) == IF a < b THEN a ELSE b

\* The conversion with the last arguments of the line taken, not the first.
Convert_LastArgs(argtypes, evt_args) ==
    LET n == IF Len(argtypes) < Len(evt_args) THEN Len(argtypes)
             ELSE Len(evt_args)
        args == SubSeq(evt_args, Len(evt_args) - n + 1, Len(evt_args))
    IN  [k \in 1..n |->
            IF argtypes[k] = "h_int" THEN h_int(args[k])
            ELSE [exc |-> NoExc, val |-> args[k]]]

\* [ty(x) for ty, x in zip(argtypes, evt_args)]: as many arguments as both
\* sequences have, each converted by its type.
Convert(argtypes, evt_args) ==
    [k \in 1..Min(Len(argtypes), Len(evt_args)) |->
        IF argtypes[k] = "h_int" THEN h_int(evt_args[k])
        ELSE [exc |-> NoExc, val |-> evt_args[k]]]

\* The handler call in WM._on_wm_event with KeyError for a type that is
\* not in the table (EVENTS[evt_type] for EVENTS.get).
Dispatch_NoDefault(w, line, reply, g) ==
    LET parts == Split(line, SP)
        evt_type == Head(parts)
        evt_args == Tail(parts)
        conv == Convert(ArgTypes(evt_type), evt_args)
    IN  IF evt_type \notin {DESKTOP_FOCUS, DESKTOP_LAYOUT, MONITOR_GEOMETRY}
           THEN [w |-> w, exc |-> "KeyError"]
        ELSE IF \E k \in 1..Len(conv) : conv[k].exc # NoExc
           THEN [w |-> w, exc |-> "ValueError"]
        ELSE IF Len(conv) < Arity(evt_type)
           THEN [w |-> w, exc |-> "TypeError"]
        ELSE IF evt_type = DESKTOP_FOCUS
           THEN on_desktop_focus(w, conv[1].val, conv[2].val)
        ELSE IF evt_type = DESKTOP_LAYOUT
           THEN on_desktop_layout(w, conv[1].val, conv[2].val, conv[3].val)
        ELSE on_monitor_geometry(w, reply, g)

\* WM._on_wm_event up to the handler's return: the line is split at single
\* spaces, its type looked up, its arguments converted (ValueError) and the
\* handler called with them (TypeError when it gets too few).
Dispatch(w, line, reply, g) ==
    LET parts == Split(line, SP)
        evt_type == Head(parts)
        evt_args == Tail(parts)
        conv == Convert(ArgTypes(evt_type), evt_args)
    IN  IF \E k \in 1..Len(conv) : conv[k].exc # NoExc
           THEN [w |-> w, exc |-> "ValueError"]
        ELSE IF Len(conv) < Arity(evt_type)
           THEN [w |-> w, exc |-> "TypeError"]
        ELSE IF evt_type = DESKTOP_FOCUS
           THEN on_desktop_focus(w, conv[1].val, conv[2].val)
        ELSE IF evt_type = DESKTOP_LAYOUT
           THEN on_desktop_layout(w, conv[1].val, conv[2].val, conv[3].val)
        ELSE IF evt_type = MONITOR_GEOMETRY
           THEN on_monitor_geometry(w, reply, g)
        ELSE [w |-> w, exc |-> NoExc]

\* WM._on_wm_event with evt_hook called before the handler.
on_wm_event_HookFirst(w, line, reply, g) ==
    LET r == Dispatch(w, line, reply, g)
    IN  [w |-> r.w, exc |-> r.exc, hook |-> TRUE, seen |-> w]

\* WM._on_wm_event: the mirror after the line, the exception it raised (if
\* any), whether evt_hook was called with the line and the mirror as it was
\* when evt_hook was called.
on_wm_event(w, line, reply, g) ==
    LET r == Dispatch(w, line, reply, g)
    IN  [w |-> r.w, exc |-> r.exc, hook |-> r.exc = NoExc, seen |-> r.w]

-----------------------------------------------------------------------------
(* Inputs: dumps (the parsed reply of `wm -d`) and event lines. *)

MonName(id) == IF id = 1 THEN "LVDS1" ELSE "monitor2"
DeskName(id) == IF id = 10 THEN "I" ELSE IF id = 11 THEN "II" ELSE "test1"

Desk(id, layout) == [id |-> id, name |-> DeskName(id), layout |-> layout]

Mon(id, desks, fd) ==
    [id |-> id, name |-> MonName(id), desktops |-> desks, focusedDesktopId |-> fd]

\* Monitor 1 with desktops 10 and 11, or with desktop 10 alone; monitor 2
\* with desktop 12.  A focusedDesktopId may name a desktop the monitor does
\* not list.
Mon1(fd) == Mon(1, <<Desk(10, TILED), Desk(11, MONOCLE)>>, fd)
Mon1Small(fd) == Mon(1, <<Desk(10, MONOCLE)>>, fd)
Mon2(fd) == Mon(2, <<Desk(12, TILED)>>, fd)

Dump(mons, fm) == [monitors |-> mons, focusedMonitorId |-> fm]

\* The dumps: monitor ids are distinct within a dump and desktop ids within
\* a monitor (they identify the daemon's objects); focusedMonitorId and
\* focusedDesktopId need not resolve.
GoodDumps ==
    {Dump(<<Mon1(10), Mon2(12)>>, 1),
     Dump(<<Mon1(11), Mon2(12)>>, 2),
     Dump(<<Mon1Small(10)>>, 1),
     Dump(<<Mon2(12)>>, 2)}

BadDumps ==
    {Dump(<<Mon1(10), Mon2(10)>>, 1),
     Dump(<<Mon1Small(11), Mon2(12)>>, 2),
     Dump(<<Mon1(11)>>, 2),
     Dump(<<>>, 1)}

Dumps == GoodDumps \cup BadDumps

EmptyDump == [monitors |-> <<>>, focusedMonitorId |-> 0]

\* What start() gets from call() and json.loads: a dump, or an exception.
Reply(d) == [exc |-> NoExc, state |-> d]
FailedReply == [exc |-> "ConnectionError", state |-> EmptyDump]
NoReply == [exc |-> "NoCall", state |-> EmptyDump]

Replies == {Reply(d) : d \in Dumps} \cup {FailedReply}

FocusLine(m, d) == Join(<<DESKTOP_FOCUS, ToHex(m), ToHex(d)>>, SP)
LayoutLine(m, d, l) == Join(<<DESKTOP_LAYOUT, ToHex(m), ToHex(d), l>>, SP)

\* Lines the daemon may send besides focus, layout and geometry changes: an
\* event this client has no handler for, and a desktop_focus whose monitor
\* id is not a base-16 number.
NodeFocusLine == Join(<<NODE_FOCUS, ToHex(1), ToHex(10)>>, SP)
BadIdLine == Join(<<DESKTOP_FOCUS, <<"z", "z">>, ToHex(10)>>, SP)
GeometryLine(m) == Join(<<MONITOR_GEOMETRY, ToHex(m)>>, SP)

OtherLines == {NodeFocusLine, BadIdLine}

\* Lines the daemon sends for the ids of the dumps, and lines that are
\* unknown, empty, unparsable, short or long.
EventLines ==
    {FocusLine(1, 10), FocusLine(1, 11), FocusLine(2, 12), FocusLine(1, 12)}
    \cup {LayoutLine(1, 10, TILED), LayoutLine(1, 10, MONOCLE),
          LayoutLine(2, 12, MONOCLE)}
    \cup {GeometryLine(1),
          NodeFocusLine,
          <<>>,
          BadIdLine,
          Join(<<DESKTOP_FOCUS, <<"1">>, <<"b">>>>, SP),
          Join(<<DESKTOP_FOCUS, ToHex(1)>>, SP),
          Join(<<DESKTOP_FOCUS, ToHex(1), ToHex(11), <<"x">>>>, SP),
          Join(<<DESKTOP_LAYOUT, ToHex(1), ToHex(10)>>, SP),
          Join(<<DESKTOP_LAYOUT, ToHex(1), ToHex(10), MONOCLE, <<"x">>>>, SP),
          <<SP>> \o FocusLine(1, 11)}

EventType(line) == Head(Split(line, SP))

-----------------------------------------------------------------------------
(* The daemon at the other end of the socket: two monitors, the desktops   *)
(* of each, the focused desktop of each monitor and the layout of each     *)
(* desktop.  It answers `wm -d` with its state as it is and writes one     *)
(* line per change to the connection that has subscribed.                  *)

DaemonDesktops == [m \in {1, 2} |-> IF m = 1 THEN <<10, 11>> ELSE <<12>>]

InitialDaemon ==
    [focused |-> [m \in {1, 2} |-> IF m = 1 THEN 10 ELSE 12],
     layout |-> [d \in {10, 11, 12} |-> IF d = 11 THEN MONOCLE ELSE TILED],
     focusedMonitorId |-> 1]

DaemonMon(dm, m) ==
    Mon(m, [j \in 1..Len(DaemonDesktops[m]) |->
                Desk(DaemonDesktops[m][j], dm.layout[DaemonDesktops[m][j]])],
        dm.focused[m])

\* The daemon's answer to `wm -d`.
DaemonDump(dm) == Dump(<<DaemonMon(dm, 1), DaemonMon(dm, 2)>>, dm.focusedMonitorId)

\* The client asks the daemon for a dump only on monitor_geometry.
RepliesTo(line) ==
    IF EventType(line) = MONITOR_GEOMETRY THEN Replies ELSE {NoReply}

-----------------------------------------------------------------------------
(* Bytes on the socket.  str.encode('utf-8') and bytes.decode('utf-8') are *)
(* computed for the characters of this model: the ASCII characters and one *)
(* character of two bytes.                                                 *)

NUL == "\\0"
EAcute == "U+00E9"

\* The printable ASCII characters, code 32 first (three of them by name).
Ascii ==
    <<" ", "!", "QUOTE", "#", "$", "%", "&", "'", "(", ")", "*", "+", ",", "-",
      ".", "/", "0", "1", "2", "3", "4", "5", "6", "7", "8", "9", ":", ";",
      "<", "=", ">", "?", "@", "A", "B", "C", "D", "E", "F", "G", "H", "I",
      "J", "K", "L", "M", "N", "O", "P", "Q", "R", "S", "T", "U", "V", "W",
      "X", "Y", "Z", "[", "BACKSLASH", "]", "^", "_", "BACKTICK", "a", "b", "c", "d", "e",
      "f", "g", "h", "i", "j", "k", "l", "m", "n", "o", "p", "q", "r", "s",
      "t", "u", "v", "w", "x", "y", "z", "{", "|", "}", "~">>

Ord(ch) ==
    IF ch = NUL THEN 0
    ELSE IF ch = NL THEN 10
    ELSE IndexOf(ch, Ascii) + 31

Chr(b) ==
    IF b = 0 THEN NUL
    ELSE IF b = 10 THEN NL
    ELSE Ascii[b - 31]

\* The UTF-8 bytes of one character.
Utf8(ch) == IF ch = EAcute THEN <<195, 169>> ELSE <<Ord(ch)>>

\* str.encode('utf-8')
RECURSIVE Encode(_)
Encode(text) ==
    IF text = <<>> THEN <<>> ELSE Utf8(Head(text)) \o Encode(Tail(text))

\* bytes.decode('utf-8'): UnicodeDecodeError for a byte that starts no
\* character, a lead byte without its continuation byte and a continuation
\* byte without its lead byte.
Decode(bytes) ==
    LET n == Len(bytes)
        IsLead(i) == bytes[i] = 195
        IsCont(i) == bytes[i] = 169
        Bad(i) ==
            \/ bytes[i] >= 128 /\ ~IsLead(i) /\ ~IsCont(i)
            \/ IsLead(i) /\ (i = n \/ ~IsCont(i + 1))
            \/ IsCont(i) /\ (i = 1 \/ ~IsLead(i - 1))
        starts == SelectSeq([i \in 1..n |-> i], LAMBDA i : ~IsCont(i))
    IN  IF \E i \in 1..n : Bad(i)
        THEN [exc |-> "UnicodeDecodeError", text |-> <<>>]
        ELSE [exc |-> NoExc,
              text |-> [j \in 1..Len(starts) |->
                           IF IsLead(starts[j]) THEN EAcute
                           ELSE Chr(bytes[starts[j]])]]

-----------------------------------------------------------------------------
(* The transport: BspwmConnection, call() and the two requests written.    *)

\* BspwmConnection.__aenter__ has returned: one more connection, open.
aenter(cs, by) == Append(cs, [by |-> by, open |-> TRUE, sent |-> <<>>])

aexit_OnReturnOnly(cs, exc) ==
    IF exc = NoExc THEN [cs EXCEPT ![Len(cs)].open = FALSE] ELSE cs

\* BspwmConnection.__aexit__(exc_type, exc, tb) closes the writer of the
\* connection the `async with` opened, whatever the block ended with.
aexit(cs, exc) == [cs EXCEPT ![Len(cs)].open = FALSE]

\* conn.w.write(data); await conn.w.drain(): the peer has received data.
written(cs, data) == [cs EXCEPT ![Len(cs)].sent = @ \o data]

encode_request_NoTerminator(method) == Encode(Join(method, NUL))

\* ('\0'.join(method)).encode('utf-8') + b'\0'
encode_request(method) == Encode(Join(method, NUL)) \o <<0>>

\* The reply decoded and without its last character if that is a newline.
decode_reply_StripOne(data) ==
    LET d == Decode(data)
    IN  IF d.exc # NoExc THEN [exc |-> d.exc, result |-> <<>>]
        ELSE [exc |-> NoExc,
              result |-> IF d.text # <<>> /\ d.text[Len(d.text)] = NL
                         THEN SubSeq(d.text, 1, Len(d.text) - 1)
                         ELSE d.text]

\* (await conn.r.read()).decode('utf-8').rstrip('\n')
decode_reply(data) ==
    LET d == Decode(data)
    IN  IF d.exc # NoExc THEN [exc |-> d.exc, result |-> <<>>]
        ELSE [exc |-> NoExc, result |-> RStrip(d.text, NL)]

\* b'subscribe\0monitor\0desktop\0'
SUBSCRIBE_COMMAND ==
    Encode(<<"s","u","b","s","c","r","i","b","e", NUL,
             "m","o","n","i","t","o","r", NUL,
             "d","e","s","k","t","o","p", NUL>>)

\* conn.r.read(4096) returns at most this many bytes.
ReadLimit == 4096

\* for line in evt.split('\n')
Lines_Reversed(evt) ==
    LET ls == Split(evt, NL) IN [i \in 1..Len(ls) |-> ls[Len(ls) + 1 - i]]

Lines(evt) == Split(evt, NL)

\* The lines of a chunk without the piece after its last newline.
chunk_lines_CompleteOnly(text) ==
    IF text # <<>> /\ text[Len(text)] # NL
    THEN LET ls == Lines(text) IN SubSeq(ls, 1, Len(ls) - 1)
    ELSE Lines(RStrip(text, NL))

\* evt = text.rstrip('\n'), then the lines the for loop goes through.
chunk_lines(text) == Lines(RStrip(text, NL))

\* No call() has been made.
NoRequest == [n |-> 0, method |-> <<>>, exc |-> NoExc, result |-> <<>>]

-----------------------------------------------------------------------------
(* The client driven directly: start() until it returns, then lines handed *)
(* to _on_wm_event one by one.                                             *)

W == [monitors |-> monitors, focused_monitor |-> focused_monitor, heap |-> heap]

Init ==
    /\ monitors = EmptyMap
    /\ focused_monitor = None
    /\ heap = EmptyMap
    /\ gen = 0
    /\ hooked = <<>>
    /\ booted = FALSE
    /\ nstarts = 0
    /\ nevents = 0
    /\ last = [op |-> "init", line |-> <<>>, reply |-> NoReply, exc |-> NoExc,
               fresh |-> FALSE]
    /\ pc = "direct"
    /\ daemon = InitialDaemon
    /\ stream = <<>>
    /\ pending = <<>>
    /\ ndaemon = 0
    /\ conns = <<>>
    /\ req = NoRequest
    /\ wire = <<>>
    /\ eof = FALSE
    /\ chunks = <<>>
    /\ dispatched = <<>>

\* The caller awaits WM.start().
Start(reply) ==
    /\ pc = "direct"
    /\ ~booted
    /\ nstarts < MaxStarts
    /\ \E r \in {start(W, reply, gen + 1)} :
           /\ monitors' = r.w.monitors
           /\ focused_monitor' = r.w.focused_monitor
           /\ heap' = r.w.heap
           /\ booted' = (r.exc = NoExc)
           /\ last' = [op |-> "start", line |-> <<>>, reply |-> reply,
                       exc |-> r.exc,
                       fresh |-> monitors = EmptyMap /\ focused_monitor = None]
    /\ gen' = IF reply.exc = NoExc THEN gen + 1 ELSE gen
    /\ nstarts' = nstarts + 1
    /\ UNCHANGED <<hooked, nevents>>
    /\ UNCHANGED runvars
    /\ UNCHANGED wirevars

\* A line is handed to WM._on_wm_event; reply is what the daemon answers
\* should the line make the client ask for a dump.
OnWmEvent(line, reply) ==
    /\ pc = "direct"
    /\ booted
    /\ nevents < MaxEvents
    /\ \E r \in {on_wm_event(W, line, reply, gen + 1)} :
           /\ monitors' = r.w.monitors
           /\ focused_monitor' = r.w.focused_monitor
           /\ heap' = r.w.heap
           /\ hooked' = IF r.hook
                        THEN Append(hooked, [line |-> line, seen |-> r.seen])
                        ELSE hooked
           /\ last' = [op |-> "event", line |-> line, reply |-> reply,
                       exc |-> r.exc, fresh |-> FALSE]
    /\ gen' = IF reply.exc = NoExc THEN gen + 1 ELSE gen
    /\ nevents' = nevents + 1
    /\ UNCHANGED <<booted, nstarts>>
    /\ UNCHANGED runvars
    /\ UNCHANGED wirevars

Next ==
    \/ \E reply \in Replies : Start(reply)
    \/ \E line \in EventLines :
          \E reply \in RepliesTo(line) : OnWmEvent(line, reply)

Spec == Init /\ [][Next]_vars

-----------------------------------------------------------------------------
(* The client as its caller runs it, against the daemon: start(), then     *)
(* run(), which subscribes and handles what it reads, chunk by chunk and   *)
(* line by line.                                                           *)

Ghost(op, line, reply, exc, fresh) ==
    [op |-> op, line |-> line, reply |-> reply, exc |-> exc, fresh |-> fresh]

\* run() holds the subscription while it is in its loop.
Subscribed == pc = "running"

RECURSIVE Concat(_)
Concat(segs) == IF segs = <<>> THEN <<>> ELSE Head(segs) \o Concat(Tail(segs))

InitRun ==
    /\ monitors = EmptyMap
    /\ focused_monitor = None
    /\ heap = EmptyMap
    /\ gen = 0
    /\ hooked = <<>>
    /\ booted = FALSE
    /\ nstarts = 0
    /\ nevents = 0
    /\ last = Ghost("init", <<>>, NoReply, NoExc, FALSE)
    /\ pc = "new"
    /\ daemon = InitialDaemon
    /\ stream = <<>>
    /\ pending = <<>>
    /\ ndaemon = 0
    /\ conns = <<>>
    /\ req = NoRequest
    /\ wire = <<>>
    /\ eof = FALSE
    /\ chunks = <<>>
    /\ dispatched = <<>>

\* The caller awaits WM.start(): the daemon answers with its state as it is
\* now, or the call fails and the caller tries again.
RunStart(reply) ==
    /\ pc = "new"
    /\ nstarts < MaxStarts
    /\ \E r \in {start(W, reply, gen + 1)} :
           /\ monitors' = r.w.monitors
           /\ focused_monitor' = r.w.focused_monitor
           /\ heap' = r.w.heap
           /\ booted' = (r.exc = NoExc)
           /\ pc' = IF r.exc = NoExc THEN "started" ELSE "new"
           /\ last' = Ghost("start", <<>>, reply, r.exc,
                            monitors = EmptyMap /\ focused_monitor = None)
    /\ gen' = IF reply.exc = NoExc THEN gen + 1 ELSE gen
    /\ nstarts' = nstarts + 1
    /\ UNCHANGED <<hooked, nevents, daemon, stream, pending, ndaemon>>
    /\ UNCHANGED wirevars

\* The caller awaits WM.run(): the connection is opened and the subscribe
\* command written; from here on the daemon writes its events to it.
RunSubscribe ==
    /\ pc = "started"
    /\ pc' = "running"
    /\ last' = Ghost("subscribe", <<>>, NoReply, NoExc, FALSE)
    /\ UNCHANGED <<monitors, focused_monitor, heap, gen, hooked, booted,
                   nstarts, nevents, daemon, stream, pending, ndaemon>>
    /\ UNCHANGED wirevars

\* conn.r.read(4096) returns what has arrived, here the first k writes of
\* the daemon; the chunk loses its trailing newlines and is split into lines.
RunRead(k) ==
    /\ pc = "running"
    /\ pending = <<>>
    /\ k \in 1..Len(stream)
    /\ pending' = Split(RStrip(Concat(SubSeq(stream, 1, k)), NL), NL)
    /\ stream' = SubSeq(stream, k + 1, Len(stream))
    /\ last' = Ghost("read", <<>>, NoReply, NoExc, FALSE)
    /\ UNCHANGED <<monitors, focused_monitor, heap, gen, hooked, booted,
                   nstarts, nevents, pc, daemon, ndaemon>>
    /\ UNCHANGED wirevars

\* The next line of the chunk is handed to _on_wm_event; an exception it
\* raises leaves run() through the connection's __aexit__.
RunDispatch ==
    /\ pc = "running"
    /\ pending # <<>>
    /\ \E line \in {Head(pending)} :
       \E reply \in IF EventType(line) = MONITOR_GEOMETRY
                    THEN {Reply(DaemonDump(daemon))} ELSE {NoReply} :
       \E r \in {on_wm_event(W, line, reply, gen + 1)} :
           /\ monitors' = r.w.monitors
           /\ focused_monitor' = r.w.focused_monitor
           /\ heap' = r.w.heap
           /\ hooked' = IF r.hook
                        THEN Append(hooked, [line |-> line, seen |-> r.seen])
                        ELSE hooked
           /\ pc' = IF r.exc = NoExc THEN "running" ELSE "raised"
           /\ pending' = IF r.exc = NoExc THEN Tail(pending) ELSE <<>>
           /\ gen' = IF reply.exc = NoExc THEN gen + 1 ELSE gen
           /\ last' = Ghost("event", line, reply, r.exc, FALSE)
    /\ nevents' = nevents + 1
    /\ UNCHANGED <<booted, nstarts, daemon, stream, ndaemon>>
    /\ UNCHANGED wirevars

\* What the daemon writes reaches the subscription if there is one.
Emit(line) ==
    /\ stream' = IF Subscribed THEN Append(stream, line \o <<NL>>) ELSE stream
    /\ ndaemon' = ndaemon + 1
    /\ last' = Ghost("daemon", line, NoReply, NoExc, FALSE)
    /\ UNCHANGED <<monitors, focused_monitor, heap, gen, hooked, booted,
                   nstarts, nevents, pc, pending>>
    /\ UNCHANGED wirevars

\* The daemon focuses another desktop of a monitor.
DaemonFocus(m, d) ==
    /\ pc # "direct"
    /\ ndaemon < MaxDaemonSteps
    /\ \E j \in 1..Len(DaemonDesktops[m]) : DaemonDesktops[m][j] = d
    /\ daemon.focused[m] # d
    /\ daemon' = [daemon EXCEPT !.focused[m] = d]
    /\ Emit(FocusLine(m, d))

\* The daemon changes the layout of a desktop.
DaemonLayout(m, d, l) ==
    /\ pc # "direct"
    /\ ndaemon < MaxDaemonSteps
    /\ \E j \in 1..Len(DaemonDesktops[m]) : DaemonDesktops[m][j] = d
    /\ daemon.layout[d] # l
    /\ daemon' = [daemon EXCEPT !.layout[d] = l]
    /\ Emit(LayoutLine(m, d, l))

\* A monitor's geometry changes; the monitors and desktops stay.
DaemonGeometry(m) ==
    /\ pc # "direct"
    /\ ndaemon < MaxDaemonSteps
    /\ UNCHANGED daemon
    /\ Emit(GeometryLine(m))

\* The daemon writes some other line.
DaemonOther(line) ==
    /\ pc # "direct"
    /\ ndaemon < MaxDaemonSteps
    /\ UNCHANGED daemon
    /\ Emit(line)

NextRun ==
    \/ \E reply \in {Reply(DaemonDump(daemon)), FailedReply} : RunStart(reply)
    \/ RunSubscribe
    \/ \E k \in 1..Len(stream) : RunRead(k)
    \/ RunDispatch
    \/ \E m \in {1, 2}, d \in {10, 11, 12} : DaemonFocus(m, d)
    \/ \E m \in {1, 2}, d \in {10, 11, 12}, l \in {TILED, MONOCLE} :
          DaemonLayout(m, d, l)
    \/ \E m \in {1, 2} : DaemonGeometry(m)
    \/ \E line \in OtherLines : DaemonOther(line)

SpecRun == InitRun /\ [][NextRun]_vars

-----------------------------------------------------------------------------
(* The client on the socket, byte by byte: call() step by step, and run()  *)
(* reading the subscription in chunks that end where the socket has them   *)
(* end, not where the daemon's lines end.  start() and the re-bootstrap    *)
(* get their dump as above; the connection call() makes for them is the    *)
(* one the three Call steps model.                                         *)

\* 'wm -d'.split(' ')
WM_DUMP == Split(<<"w","m",SP,"-","d">>, SP)

\* What the caller passes to call() as method.
CallMethods ==
    {<<<<"a","b","c">>, <<"d","e","f">>>>,
     WM_DUMP,
     <<<<"c","a","f",EAcute>>>>,
     <<>>}

\* What the peer answers before it closes its end.
PeerReplies ==
    {Encode(<<"a","b","c",NL>>), Encode(<<"a","b","c",NL,NL>>),
     Encode(<<"a",NL,"b">>), <<>>, <<255>>}

\* How an operation on the socket ends.
IoOutcomes == {NoExc, "ConnectionError"}

\* A line with a character of two bytes.
NoteLine == <<"n","o","d","e","_","t","i","t","l","e",SP,EAcute>>

\* The lines the daemon writes to the subscription.
WireLines == {FocusLine(1, 11), GeometryLine(1), NoteLine}

\* The lengths of the chunk a read may return when n bytes have arrived:
\* all of them, or a multiple of ChunkStep.
Cuts(n) ==
    {k \in 1..Min(n, ReadLimit) : k = Min(n, ReadLimit) \/ k % ChunkStep = 0}

InitWire ==
    /\ monitors = EmptyMap
    /\ focused_monitor = None
    /\ heap = EmptyMap
    /\ gen = 0
    /\ hooked = <<>>
    /\ booted = FALSE
    /\ nstarts = 0
    /\ nevents = 0
    /\ last = Ghost("init", <<>>, NoReply, NoExc, FALSE)
    /\ pc = "idle"
    /\ daemon = InitialDaemon
    /\ stream = <<>>
    /\ pending = <<>>
    /\ ndaemon = 0
    /\ conns = <<>>
    /\ req = NoRequest
    /\ wire = <<>>
    /\ eof = FALSE
    /\ chunks = <<>>
    /\ dispatched = <<>>

\* The caller awaits WM.start().
WireStart(reply) ==
    /\ pc = "idle"
    /\ ~booted
    /\ nstarts < MaxStarts
    /\ \E r \in {start(W, reply, gen + 1)} :
           /\ monitors' = r.w.monitors
           /\ focused_monitor' = r.w.focused_monitor
           /\ heap' = r.w.heap
           /\ booted' = (r.exc = NoExc)
           /\ last' = Ghost("start", <<>>, reply, r.exc,
                            monitors = EmptyMap /\ focused_monitor = None)
    /\ gen' = IF reply.exc = NoExc THEN gen + 1 ELSE gen
    /\ nstarts' = nstarts + 1
    /\ UNCHANGED <<hooked, nevents>>
    /\ UNCHANGED runvars
    /\ UNCHANGED wirevars

\* call(sock_path, method) enters its `async with`: the connection is
\* opened, or opening it fails and call() raises.
CallOpen(method, io) ==
    /\ pc = "idle"
    /\ req.n < MaxCalls
    /\ req' = [n |-> req.n + 1, method |-> method, exc |-> io, result |-> <<>>]
    /\ conns' = IF io = NoExc THEN aenter(conns, "call") ELSE conns
    /\ pc' = IF io = NoExc THEN "call_open" ELSE "idle"
    /\ last' = Ghost("call_open", <<>>, NoReply, io, FALSE)
    /\ UNCHANGED <<monitors, focused_monitor, heap, gen, hooked, booted,
                   nstarts, nevents, daemon, stream, pending, ndaemon,
                   wire, eof, chunks, dispatched>>

\* call() writes the request and drains; if that fails the peer has got
\* none or all but the last byte of it, and call() raises.
CallWrite(io) ==
    /\ pc = "call_open"
    /\ \E data \in {encode_request(req.method)} :
           IF io = NoExc
           THEN /\ conns' = written(conns, data)
                /\ pc' = "call_sent"
                /\ req' = req
           ELSE /\ \E k \in {0, Len(data) - 1} :
                      conns' = aexit(written(conns, SubSeq(data, 1, k)), io)
                /\ pc' = "idle"
                /\ req' = [req EXCEPT !.exc = io]
    /\ last' = Ghost("call_write", <<>>, NoReply, io, FALSE)
    /\ UNCHANGED <<monitors, focused_monitor, heap, gen, hooked, booted,
                   nstarts, nevents, daemon, stream, pending, ndaemon,
                   wire, eof, chunks, dispatched>>

\* call() reads until the peer closes, decodes, strips and returns; a read
\* that fails or bytes that do not decode make it raise.
CallRead(data, io) ==
    /\ pc = "call_sent"
    /\ \E r \in {IF io = NoExc THEN decode_reply(data)
                 ELSE [exc |-> io, result |-> <<>>]} :
           /\ req' = [req EXCEPT !.exc = r.exc, !.result = r.result]
           /\ conns' = aexit(conns, r.exc)
           /\ last' = Ghost("call_read", data, NoReply, r.exc, FALSE)
    /\ pc' = "idle"
    /\ UNCHANGED <<monitors, focused_monitor, heap, gen, hooked, booted,
                   nstarts, nevents, daemon, stream, pending, ndaemon,
                   wire, eof, chunks, dispatched>>

\* run() enters its `async with`.
SubOpen(io) ==
    /\ pc = "idle"
    /\ conns' = IF io = NoExc THEN aenter(conns, "run") ELSE conns
    /\ pc' = IF io = NoExc THEN "run_open" ELSE "raised"
    /\ last' = Ghost("run_open", <<>>, NoReply, io, FALSE)
    /\ UNCHANGED <<monitors, focused_monitor, heap, gen, hooked, booted,
                   nstarts, nevents, daemon, stream, pending, ndaemon,
                   req, wire, eof, chunks, dispatched>>

\* run() writes the subscribe command and drains.
SubWrite(io) ==
    /\ pc = "run_open"
    /\ IF io = NoExc
       THEN /\ conns' = written(conns, SUBSCRIBE_COMMAND)
            /\ pc' = "reading"
       ELSE /\ conns' = aexit(conns, io)
            /\ pc' = "raised"
    /\ last' = Ghost("run_subscribe", <<>>, NoReply, io, FALSE)
    /\ UNCHANGED <<monitors, focused_monitor, heap, gen, hooked, booted,
                   nstarts, nevents, daemon, stream, pending, ndaemon,
                   req, wire, eof, chunks, dispatched>>

\* conn.r.read(4096) returns the first k bytes that have arrived, or no
\* byte when there is none and the daemon has closed; the chunk is decoded,
\* loses its trailing newlines and is split into the lines of the for loop.
SubRead(k, io) ==
    /\ pc = "reading"
    /\ pending = <<>>
    /\ Len(chunks) < MaxReads
    /\ IF wire = <<>> THEN eof /\ k = 0 ELSE k \in Cuts(Len(wire))
    /\ IF io # NoExc
       THEN /\ conns' = aexit(conns, io)
            /\ pc' = "raised"
            /\ last' = Ghost("read", <<>>, NoReply, io, FALSE)
            /\ UNCHANGED <<wire, chunks, pending>>
       ELSE \E d \in {Decode(SubSeq(wire, 1, k))} :
            /\ wire' = SubSeq(wire, k + 1, Len(wire))
            /\ chunks' = Append(chunks, SubSeq(wire, 1, k))
            /\ pending' = IF d.exc = NoExc THEN chunk_lines(d.text) ELSE <<>>
            /\ conns' = IF d.exc = NoExc THEN conns ELSE aexit(conns, d.exc)
            /\ pc' = IF d.exc = NoExc THEN "reading" ELSE "raised"
            /\ last' = Ghost("read", <<>>, NoReply, d.exc, FALSE)
    /\ UNCHANGED <<monitors, focused_monitor, heap, gen, hooked, booted,
                   nstarts, nevents, daemon, stream, ndaemon,
                   req, eof, dispatched>>

\* The next line of the for loop is handed to _on_wm_event; an exception it
\* raises leaves run() through the connection's __aexit__.
SubDispatch ==
    /\ pc = "reading"
    /\ pending # <<>>
    /\ \E line \in {Head(pending)} :
       \E reply \in IF EventType(line) = MONITOR_GEOMETRY
                    THEN {Reply(DaemonDump(daemon)), FailedReply}
                    ELSE {NoReply} :
       \E r \in {on_wm_event(W, line, reply, gen + 1)} :
           /\ monitors' = r.w.monitors
           /\ focused_monitor' = r.w.focused_monitor
           /\ heap' = r.w.heap
           /\ hooked' = IF r.hook
                        THEN Append(hooked, [line |-> line, seen |-> r.seen])
                        ELSE hooked
           /\ dispatched' = Append(dispatched, line)
           /\ pc' = IF r.exc = NoExc THEN "reading" ELSE "raised"
           /\ pending' = IF r.exc = NoExc THEN Tail(pending) ELSE <<>>
           /\ conns' = IF r.exc = NoExc THEN conns ELSE aexit(conns, r.exc)
           /\ gen' = IF reply.exc = NoExc THEN gen + 1 ELSE gen
           /\ last' = Ghost("event", line, reply, r.exc, FALSE)
    /\ nevents' = nevents + 1
    /\ UNCHANGED <<booted, nstarts, daemon, stream, ndaemon,
                   req, wire, eof, chunks>>

\* The daemon writes a line to the subscription.
PeerWrite(line) ==
    /\ pc = "reading"
    /\ ~eof
    /\ ndaemon < MaxWrites
    /\ wire' = wire \o Encode(line \o <<NL>>)
    /\ ndaemon' = ndaemon + 1
    /\ last' = Ghost("daemon", line, NoReply, NoExc, FALSE)
    /\ UNCHANGED <<monitors, focused_monitor, heap, gen, hooked, booted,
                   nstarts, nevents, pc, daemon, stream, pending,
                   conns, req, eof, chunks, dispatched>>

\* The daemon closes the subscription.
PeerClose ==
    /\ pc = "reading"
    /\ ~eof
    /\ eof' = TRUE
    /\ last' = Ghost("close", <<>>, NoReply, NoExc, FALSE)
    /\ UNCHANGED <<monitors, focused_monitor, heap, gen, hooked, booted,
                   nstarts, nevents, pc, daemon, stream, pending, ndaemon,
                   conns, req, wire, chunks, dispatched>>

\* The caller makes one call() of its own, or awaits start() once, or
\* neither, and then runs the client.
NextWire ==
    \/ \E reply \in {Reply(DaemonDump(daemon)), FailedReply} :
          req.n = 0 /\ nstarts = 0 /\ WireStart(reply)
    \/ \E io \in IoOutcomes : req.n = 0 /\ nstarts = 0 /\ CallOpen(WM_DUMP, io)
    \/ \E io \in IoOutcomes : CallWrite(io)
    \/ \E data \in {Encode(<<"a","b","c",NL>>), <<255>>}, io \in IoOutcomes :
          CallRead(data, io)
    \/ \E io \in IoOutcomes : SubOpen(io)
    \/ \E io \in IoOutcomes : SubWrite(io)
    \/ \E k \in 0..Len(wire), io \in IoOutcomes : SubRead(k, io)
    \/ SubDispatch
    \/ \E line \in WireLines : PeerWrite(line)
    \/ PeerClose

SpecWire == InitWire /\ [][NextWire]_vars

\* call() and the subscribe command of run() alone, for every method and
\* every reply; the daemon writes nothing to the subscription.
NextCall ==
    \/ \E method \in CallMethods, io \in IoOutcomes : CallOpen(method, io)
    \/ \E io \in IoOutcomes : CallWrite(io)
    \/ \E data \in PeerReplies, io \in IoOutcomes : CallRead(data, io)
    \/ \E io \in IoOutcomes : SubOpen(io)
    \/ \E io \in IoOutcomes : SubWrite(io)

SpecCall == InitWire /\ [][NextCall]_vars

-----------------------------------------------------------------------------
(* Properties of the mirror. *)

EmptyWM == [monitors |-> EmptyMap, focused_monitor |-> None, heap |-> EmptyMap]

MonitorIds(d) == {d.monitors[i].id : i \in 1..Len(d.monitors)}
DesktopIds(mon) == {mon.desktops[j].id : j \in 1..Len(mon.desktops)}

\* The step just taken handed a line to _on_wm_event (primed: the step
\* being taken hands it).
IsEvent(l) == l.op = "event"
IsStart(l) == l.op = "start"
Raised(l) == l.exc # NoExc

\* The step asked the daemon for a dump and got one.
GotDump(l) == l.reply.exc = NoExc

FocusRefsValid ==
    /\ focused_monitor \in Values(monitors)
    /\ \A a \in Values(monitors) :
          heap[a].focused_desktop \in Values(heap[a].desktops)

\* C1: once start() has succeeded, after any sequence of event lines every
\* monitor's focused_desktop is one of the Desktop objects in its own
\* desktops mapping and focused_monitor is one of the Monitor objects in
\* WM.monitors.
C1_FocusRefsNeverDangle == booted => FocusRefsValid

\* C3: start() on a freshly constructed WM, given a dump of N monitors,
\* leaves exactly N entries in WM.monitors, each under its monitor's id and
\* holding exactly the desktops listed for it under their ids;
\* focused_monitor is the monitor focusedMonitorId names and each
\* focused_desktop the desktop focusedDesktopId names.
C3_FreshBootstrapBuildsDump ==
    (IsStart(last) /\ ~Raised(last) /\ last.fresh) =>
        LET d == last.reply.state
        IN  /\ Cardinality(DOMAIN monitors) = Len(d.monitors)
            /\ DOMAIN monitors = MonitorIds(d)
            /\ \A i \in 1..Len(d.monitors) :
                  LET mon == d.monitors[i]
                      m == heap[monitors[mon.id]]
                  IN  /\ m.id = mon.id
                      /\ m.name = mon.name
                      /\ DOMAIN m.desktops = DesktopIds(mon)
                      /\ Cardinality(DOMAIN m.desktops) = Len(mon.desktops)
                      /\ \A j \in 1..Len(mon.desktops) :
                            heap[m.desktops[mon.desktops[j].id]] = mon.desktops[j]
                      /\ m.focused_desktop = m.desktops[mon.focusedDesktopId]
            /\ focused_monitor = monitors[d.focusedMonitorId]
            /\ \A id1, id2 \in DOMAIN monitors :
                  id1 # id2 => monitors[id1] # monitors[id2]

C3_Witness ==
    /\ IsStart(last) /\ ~Raised(last) /\ last.fresh
    /\ Len(last.reply.state.monitors) = 2
    /\ Cardinality(DOMAIN monitors) = 2

\* C4: a monitor_geometry line whose re-bootstrap succeeds leaves the mirror
\* equal to that of a fresh client bootstrapped from the same dump: exactly
\* the monitors of the new dump.
C4_RebootstrapReplacesWholesale ==
    (IsEvent(last) /\ GotDump(last) /\ ~Raised(last)) =>
        /\ DOMAIN monitors = MonitorIds(last.reply.state)
        /\ W = apply_initial_state(EmptyWM, last.reply.state, gen).w

\* C5: a bootstrap or re-bootstrap that fails leaves the mirror exactly as
\* it was before the call.
C5_FailedBootstrapChangesNothing ==
    [][(last'.reply # NoReply /\ Raised(last')) => W' = W]_vars

\* The line starts with the event type name, followed by nothing or by a
\* space.
HasType(line, name) ==
    /\ Len(line) >= Len(name)
    /\ SubSeq(line, 1, Len(name)) = name
    /\ (Len(line) > Len(name) => line[Len(name) + 1] = SP)

Recognized(line) ==
    \E name \in {DESKTOP_FOCUS, DESKTOP_LAYOUT, MONITOR_GEOMETRY} :
        HasType(line, name)

\* The monitor and the desktop are in the mirror, the desktop in the
\* monitor's own desktops.
Known(m, d) ==
    /\ m \in DOMAIN monitors
    /\ d \in DOMAIN heap[monitors[m]].desktops

\* C6: `desktop_focus <mon> <desk>`, <desk> a desktop of <mon>, makes that
\* desktop the monitor's focused_desktop and changes nothing else: no other
\* monitor's focused_desktop, not focused_monitor, not the monitors and
\* desktops there are, no desktop's name or layout.
C6_DesktopFocusFrame ==
    [][\A m \in {1, 2}, d \in {10, 11, 12} :
          (IsEvent(last') /\ last'.line = FocusLine(m, d) /\ Known(m, d)) =>
              /\ ~Raised(last')
              /\ monitors' = monitors
              /\ focused_monitor' = focused_monitor
              /\ heap' = [heap EXCEPT ![monitors[m]].focused_desktop =
                                         heap[monitors[m]].desktops[d]]]_vars

C6_Witness ==
    /\ IsEvent(last) /\ ~Raised(last) /\ last.line = FocusLine(1, 11)
    /\ gen = 1 /\ nevents = 1
    /\ 2 \in DOMAIN monitors
    /\ focused_monitor = monitors[1]
    /\ heap[monitors[1]].focused_desktop = heap[monitors[1]].desktops[11]

\* C7: `desktop_layout <mon> <desk> <layout>` for a known monitor and
\* desktop sets that desktop's layout and changes nothing else, and handing
\* the same line over a second time changes nothing at all.
C7_DesktopLayoutFrame ==
    [][\A m \in {1, 2}, d \in {10, 11, 12}, l \in {TILED, MONOCLE} :
          (IsEvent(last') /\ last'.line = LayoutLine(m, d, l) /\ Known(m, d)) =>
              /\ ~Raised(last')
              /\ monitors' = monitors
              /\ focused_monitor' = focused_monitor
              /\ heap' = [heap EXCEPT ![heap[monitors[m]].desktops[d]].layout = l]
              /\ (IsEvent(last) /\ ~Raised(last) /\ last.line = last'.line) =>
                    W' = W]_vars

C7_Witness ==
    /\ IsEvent(last) /\ ~Raised(last) /\ last.line = LayoutLine(1, 10, MONOCLE)
    /\ gen = 1 /\ nevents = 2
    /\ 2 \in DOMAIN monitors
    /\ Len(hooked) = 2
    /\ hooked[1].line = last.line
    /\ DOMAIN heap[monitors[1]].desktops = {10, 11}
    /\ heap[heap[monitors[1]].desktops[10]].layout = MONOCLE
    /\ heap[heap[monitors[1]].desktops[11]].layout = MONOCLE
    /\ heap[heap[monitors[2]].desktops[12]].layout = TILED

\* C8: a line whose type is not in the handler table, whatever follows the
\* type, the empty line included, leaves the mirror unchanged, raises
\* nothing and has the hook called once with the line.
C8_UnknownTypeIsObservedOnly ==
    [][\A line \in EventLines :
          (IsEvent(last') /\ last'.line = line /\ ~Recognized(line)) =>
              /\ ~Raised(last')
              /\ W' = W
              /\ hooked' = Append(hooked, [line |-> line, seen |-> W])]_vars

C8_Witness ==
    /\ IsEvent(last) /\ ~Raised(last) /\ last.line = <<>>
    /\ nevents = 2
    /\ Len(hooked) = 2
    /\ hooked[1].line = <<SP>> \o FocusLine(1, 11)
    /\ hooked[2].line = <<>>
    /\ 1 \in DOMAIN monitors
    /\ 10 \in DOMAIN heap[monitors[1]].desktops
    /\ heap[monitors[1]].focused_desktop = heap[monitors[1]].desktops[10]

MirrorMatchesDaemon ==
    \A m \in DOMAIN DaemonDesktops :
        /\ m \in DOMAIN monitors
        /\ heap[heap[monitors[m]].focused_desktop].id = daemon.focused[m]
        /\ \A j \in 1..Len(DaemonDesktops[m]) :
              LET d == DaemonDesktops[m][j]
              IN  /\ d \in DOMAIN heap[monitors[m]].desktops
                  /\ heap[heap[monitors[m]].desktops[d]].layout = daemon.layout[d]

\* C2: after start() and then run(), whenever every line the daemon wrote
\* to the subscription has been handled, the mirror's focused desktops and
\* layouts are the daemon's, also when the daemon changed between the dump
\* and the subscription.
C2_MirrorCatchesUp ==
    (pc = "running" /\ stream = <<>> /\ pending = <<>>) => MirrorMatchesDaemon

\* C10: in run(), a recognized line with an unparsable argument leaves the
\* mirror unchanged and the loop running, and the lines after it in the
\* chunk are still to be handled.
C10_BadLineSkipped ==
    [][(IsEvent(last') /\ Recognized(last'.line) /\ last'.exc = "ValueError") =>
          /\ W' = W
          /\ pc' = "running"
          /\ pending' = Tail(pending)]_vars

\* C14: `desktop_focus <mon> <desk>` with <mon> not in the mirror, or
\* <desk> not among the desktops of <mon> (a desktop of another monitor
\* included), fails with the error of a reference that does not resolve
\* (Python's KeyError) and leaves the mirror as it was.
C14_UnknownFocusFails ==
    [][\A m \in {1, 2}, d \in {10, 11, 12} :
          (IsEvent(last') /\ last'.line = FocusLine(m, d) /\ ~Known(m, d)) =>
              /\ last'.exc = "KeyError"
              /\ W' = W]_vars

C14_Witness ==
    /\ IsEvent(last) /\ last.exc = "KeyError" /\ last.line = FocusLine(1, 12)
    /\ DOMAIN monitors = {1, 2}
    /\ 12 \in DOMAIN heap[monitors[2]].desktops
    /\ 12 \notin DOMAIN heap[monitors[1]].desktops
    /\ heap[monitors[1]].focused_desktop = heap[monitors[1]].desktops[10]

\* Every focus id of the dump names something of the dump: focusedMonitorId
\* one of its monitors, each focusedDesktopId a desktop of its own monitor.
DumpResolves(d) ==
    /\ d.focusedMonitorId \in MonitorIds(d)
    /\ \A i \in 1..Len(d.monitors) :
          d.monitors[i].focusedDesktopId \in DesktopIds(d.monitors[i])

\* C15: a bootstrap or re-bootstrap from a dump with a focus id that names
\* nothing of the dump fails.
C15_DanglingDumpFails ==
    (GotDump(last) /\ ~DumpResolves(last.reply.state)) => Raised(last)

\* The line cut down to its type and the first n arguments.
Truncated(line, n) ==
    LET parts == Split(line, SP)
    IN  Join(SubSeq(parts, 1, Min(Len(parts), n + 1)), SP)

\* C20: a recognized line with more arguments than its handler takes
\* leaves the mirror as the line without the arguments in excess leaves
\* it; one with fewer arguments fails, the mirror unchanged and the hook
\* not called.
C20_ArityHandling ==
    [][\A line \in EventLines :
          (IsEvent(last') /\ last'.line = line /\ Recognized(line)) =>
              LET n == Arity(EventType(line))
                  given == Len(Split(line, SP)) - 1
                  r == on_wm_event(W, Truncated(line, n), last'.reply, gen + 1)
              IN  /\ given > n => (W' = r.w /\ last'.exc = r.exc)
                  /\ given < n =>
                        (Raised(last') /\ W' = W /\ hooked' = hooked)]_vars

C20_Witness ==
    /\ nevents = 2
    /\ hooked =
          <<[line |-> Join(<<DESKTOP_FOCUS, ToHex(1), ToHex(11), <<"x">>>>, SP),
             seen |-> W]>>
    /\ heap[monitors[1]].focused_desktop = heap[monitors[1]].desktops[11]
    /\ IsEvent(last) /\ last.exc = "TypeError"
    /\ last.line = Join(<<DESKTOP_LAYOUT, ToHex(1), ToHex(10)>>, SP)

-----------------------------------------------------------------------------
(* Properties of the transport and of the loop of run(). *)

\* Some read of run() has returned no byte: the daemon has closed the
\* subscription and everything it wrote before has been read.
EofRead == \E i \in 1..Len(chunks) : chunks[i] = <<>>

\* C11: once the read in run() has returned end-of-stream, no line is
\* handed to _on_wm_event any more and the hook is not called again.
C11_EndOfStreamEndsRun ==
    [][EofRead => (dispatched' = dispatched /\ hooked' = hooked)]_vars

\* call() or run() is inside its `async with`.
InsideWith == pc \in {"call_open", "call_sent", "run_open", "reading"}

\* C12: once call() or run() has returned or raised, whatever made it
\* raise, no connection it opened is open; while one of them is at work
\* the only open connection is the one it works on.
C12_NoConnectionLeftOpen ==
    \A i \in 1..Len(conns) :
        conns[i].open => (InsideWith /\ i = Len(conns))

C12_Witness ==
    /\ pc = "raised"
    /\ IsEvent(last) /\ Raised(last)
    /\ Len(conns) = 2
    /\ conns[1].by = "call" /\ req.exc = "UnicodeDecodeError"
    /\ conns[2].by = "run" /\ conns[2].sent # <<>>
    /\ \A i \in 1..2 : ~conns[i].open

\* C13: run() on a client whose start() has never returned normally hands
\* no line to _on_wm_event and calls the hook for no line.
C13_RunRequiresBootstrap ==
    ~booted => (dispatched = <<>> /\ hooked = <<>>)

\* C16: the text call() returns is the decoded reply without its final
\* newline if it ends in one, and the decoded reply itself otherwise.
C16_StripsOneNewline ==
    [][(last'.op = "call_read" /\ ~Raised(last')) =>
          req'.result = decode_reply_StripOne(last'.line).result]_vars

\* The arguments, each followed by one NUL byte; the empty list joins to
\* the empty text, which is followed by the one NUL byte.
RequestBytes(method) ==
    IF method = <<>> THEN <<0>>
    ELSE Concat([i \in 1..Len(method) |-> Encode(method[i]) \o <<0>>])

\* C17: when call() starts to read the reply the peer has received the
\* arguments joined by NUL and one NUL after them, whatever the arguments;
\* what run() has written when it starts to read is
\* subscribe NUL monitor NUL desktop NUL.
C17_RequestBytesOnTheWire ==
    [][/\ last'.op = "call_read" =>
             conns[Len(conns)].sent = RequestBytes(req.method)
       /\ pc' = "call_sent" =>
             conns'[Len(conns')].sent = RequestBytes(req'.method)
       /\ pc' = "reading" =>
             conns'[Len(conns')].sent =
                 RequestBytes(<<<<"s","u","b","s","c","r","i","b","e">>,
                                <<"m","o","n","i","t","o","r">>,
                                <<"d","e","s","k","t","o","p">>>>)]_vars

C17_Witness ==
    /\ pc = "reading"
    /\ Len(conns) = 3
    /\ conns[1].by = "call" /\ conns[1].sent = <<0>>
    /\ conns[2].by = "call" /\ conns[2].sent = <<99, 97, 102, 195, 169, 0>>
    /\ req.exc = NoExc /\ req.result = <<"a", NL, "b">>
    /\ conns[3].by = "run" /\ Len(conns[3].sent) = 26 /\ conns[3].sent[26] = 0

\* The lines of a chunk as read: decoded, the trailing newlines dropped,
\* split at the newlines; none if the chunk does not decode.
ChunkLines(raw) ==
    LET d == Decode(raw)
    IN  IF d.exc # NoExc THEN <<>> ELSE Split(RStrip(d.text, NL), NL)

\* The lines of the chunks chs, in the order of the chunks.
Received(chs) == Concat([i \in 1..Len(chs) |-> ChunkLines(chs[i])])

\* C18: run() hands the lines to _on_wm_event one per step, in the order
\* of the chunks and within a chunk in the order of its lines, every line
\* of a chunk before the next chunk is read; the mirror changes in these
\* steps only, and every line finds the mirror as the line before it left
\* it, re-bootstrapped in full if that line was monitor_geometry.
C18_OneLineAtATimeInOrder ==
    [][/\ \A lines \in {Received(chunks')} :
             /\ Len(dispatched') <= Len(lines)
             /\ dispatched' = SubSeq(lines, 1, Len(dispatched'))
             /\ pc' = "reading" => dispatched' \o pending' = lines
       /\ last'.op = "read" => pending = <<>>
       /\ IsEvent(last') => dispatched' = Append(dispatched, last'.line)
       /\ (~IsEvent(last') /\ ~IsStart(last')) => W' = W
       /\ (IsEvent(last') /\ hooked # <<>>) => W = hooked[Len(hooked)].seen
       /\ (IsEvent(last') /\ HasType(last'.line, MONITOR_GEOMETRY)
             /\ ~Raised(last')) =>
             /\ W' = apply_initial_state(W, last'.reply.state, gen').w
             /\ hooked'[Len(hooked')].seen = W']_vars

C18_Witness ==
    /\ pc = "reading" /\ pending = <<>>
    /\ Len(chunks) = 1
    /\ dispatched = <<GeometryLine(1), FocusLine(1, 11)>>
    /\ gen = 2
    /\ Len(hooked) = 2
    /\ hooked[1].seen.heap[hooked[1].seen.monitors[1]].focused_desktop =
          hooked[1].seen.heap[hooked[1].seen.monitors[1]].desktops[10]
    /\ monitors = hooked[1].seen.monitors
    /\ heap[monitors[1]].focused_desktop = heap[monitors[1]].desktops[11]

\* C19: the lines of a chunk are the pieces between its newlines, the
\* piece after the last newline included, and nothing of the chunk before
\* is put in front of the first: a line the daemon wrote that arrives in
\* two chunks is handed to _on_wm_event as two lines.
C19_FragmentsDispatched ==
    [][/\ (last'.op = "read" /\ Len(chunks') > Len(chunks)) =>
             pending' = ChunkLines(chunks'[Len(chunks')])
       /\ IsEvent(last') =>
             (last'.line = Head(pending) /\ Len(pending') < Len(pending))]_vars

C19_Witness ==
    /\ booted /\ ndaemon = 1 /\ wire = <<>>
    /\ Len(chunks) = 2 /\ Len(chunks[1]) = ChunkStep
    /\ chunks[1] \o chunks[2] = Encode(FocusLine(1, 11) \o <<NL>>)
    /\ Len(dispatched) = 2
    /\ dispatched[1] \o dispatched[2] = FocusLine(1, 11)
    /\ Len(hooked) = 2
    /\ heap[monitors[1]].focused_desktop = heap[monitors[1]].desktops[10]

====
